---- MODULE Spec2Model ----
(***************************************************************************)
(* The winit X11 integration-test module (src/it/x11-module/src): the      *)
(* control-socket dispatcher (main.c), the registry of virtual input       *)
(* devices and the event synthesis (input.c) and the two-output video      *)
(* driver (video.c).                                                        *)
(*                                                                         *)
(* One TLA+ step is one run of handle_message, or one run of the un_init   *)
(* callback that the X server makes between two messages.  The X server    *)
(* (device ids, valuator masks, RandR) is outside the repository: the      *)
(* model keeps of it only what the module's calls read and write.          *)
(***************************************************************************)
EXTENDS Integers, Sequences, FiniteSets, TLC

(***************************************************************************)
(* Bounds of the model.                                                    *)
(***************************************************************************)
\* Spec, the whole protocol: the ids the X server has for input devices
\* (1..ProtoDevices), the calls of input_new and of input_touch_down followed
ProtoDevices == 1
ProtoCreates == 1
ProtoTouchDowns == 1
\* the specifications of one part of the protocol: the same three
MaxDevices == 2
MaxCreates == 2
MaxTouchDowns == 2

(***************************************************************************)
(* input.c: enum Type                                                      *)
(***************************************************************************)
TyKeyboard == 1
TyMouse == 2
TyTouch == 3

MIN_KEYCODE == 8

(***************************************************************************)
(* main.c: enum MessageType                                                *)
(***************************************************************************)
MT_NONE == 0
MT_CREATE_KEYBOARD == 1
MT_CREATE_KEYBOARD_REPLY == 2
MT_KEY_PRESS == 3
MT_KEY_RELEASE == 4
MT_REMOVE_DEVICE == 5
MT_ENABLE_SECOND_MONITOR == 6
MT_ENABLE_SECOND_MONITOR_REPLY == 7
MT_GET_VIDEO_INFO == 8
MT_GET_VIDEO_INFO_REPLY == 9
MT_CREATE_MOUSE == 10
MT_CREATE_MOUSE_REPLY == 11
MT_BUTTON_PRESS == 12
MT_BUTTON_RELEASE == 13
MT_MOUSE_MOVE == 14
MT_MOUSE_SCROLL == 15
MT_CREATE_TOUCH == 16
MT_CREATE_TOUCH_REPLY == 17
MT_TOUCH_DOWN == 18
MT_TOUCH_DOWN_REPLY == 19
MT_TOUCH_UP == 20
MT_TOUCH_MOVE == 21

\* sizeof(Message): the largest variant, touch_move, is five 32-bit words
MessageSize == 20

(***************************************************************************)
(* C integer conversions.  A 32-bit word is kept as the signed value of    *)
(* its bit pattern, so every value stays inside TLC's integers.            *)
(***************************************************************************)
INT32_MAX == 65536 * 32767 + 65535
INT32_MIN == -INT32_MAX - 1

\* (uint8_t)x: the low byte
ToUint8(x) == x % 256

\* (bool)x
ToBool(x) == x # 0

\* the mathematical product d * 120 is an int
Fits120(d) == /\ d <= INT32_MAX \div 120
              /\ d >= -(INT32_MAX \div 120)

\* d * 120 reduced modulo 2^32 to an int, computed on 16-bit halves
Wrap120(d) ==
  LET lo == d % 65536
      hi == d \div 65536
      plo == lo * 120
      phi == hi * 120 + (plo \div 65536)
      whi == ((phi + 32768) % 65536) - 32768
  IN whi * 65536 + (plo % 65536)


(***************************************************************************)
(* The state.  The C variables keep their names.                           *)
(***************************************************************************)
VARIABLES
  heap,           \* the allocated Device records, by address
  devices,        \* input.c: static Device *devices (head of the list)
  current_type,   \* input.c: static Type current_type
  next_input_id,  \* input.c: input_new's static int next_input_id
  TOUCH_ID,       \* input.c: input_touch_down's static uint32_t TOUCH_ID
  outputs,        \* video.c: driver.outputs
  randr,          \* X server: RandR's changed flag and published connections
  closing,        \* X server: devices whose removal was requested, UnInit due
  fatal,          \* "none", or the failed assertion that ended the process
  calls,          \* what the last handler (or callback) did, in program
                  \* order: the read, the calls into the X server, the write
  handed,            \* history: the ids the Create replies written carried
  touch_replies,  \* history: the ids in the TouchDown replies written, in order
  removed         \* history: the ids whose RemoveDevice found a device

vars == <<heap, devices, current_type, next_input_id, TOUCH_ID, outputs,
          randr, closing, fatal, calls, handed,
          touch_replies, removed>>

NULL == 0

\* An InputInfoRec is named by the id of the X device it belongs to
\* (pInfo->dev->id); a Device record by its address.

(***************************************************************************)
(* X server: ValuatorMask of 4 valuators, as input.c uses it.              *)
(***************************************************************************)
Slots == 0..3

\* device->mask == NULL (calloc in pre_init)
NoMask == [alloc |-> FALSE, bits |-> {}, has_unaccelerated |-> FALSE,
           valuators |-> [i \in Slots |-> 0],
           unaccelerated |-> [i \in Slots |-> 0]]

valuator_mask_new == [NoMask EXCEPT !.alloc = TRUE]

valuator_mask_zero(mask) == valuator_mask_new

valuator_mask_set(mask, valuator, data) ==
  [mask EXCEPT !.bits = @ \cup {valuator}, !.valuators[valuator] = data]

valuator_mask_set_unaccelerated(mask, valuator, accel, unaccel) ==
  [mask EXCEPT !.bits = @ \cup {valuator}, !.has_unaccelerated = TRUE,
               !.valuators[valuator] = accel,
               !.unaccelerated[valuator] = unaccel]

(***************************************************************************)
(* The program state as one record, so that the C functions compose.       *)
(***************************************************************************)
World == [heap |-> heap, devices |-> devices, current_type |-> current_type,
          next_input_id |-> next_input_id, TOUCH_ID |-> TOUCH_ID,
          outputs |-> outputs, randr |-> randr, closing |-> closing,
          fatal |-> fatal, calls |-> calls]

Install(w) ==
  /\ heap' = w.heap
  /\ devices' = w.devices
  /\ current_type' = w.current_type
  /\ next_input_id' = w.next_input_id
  /\ TOUCH_ID' = w.TOUCH_ID
  /\ outputs' = w.outputs
  /\ randr' = w.randr
  /\ closing' = w.closing
  /\ fatal' = w.fatal
  /\ calls' = w.calls

\* a failed assert: the process aborts
Abort(w, assertion) == [w EXCEPT !.fatal = assertion]

Running(w) == w.fatal = "none"

\* a call into the X server (or a write on the socket), as the host sees it
Call(w, c) == [w EXCEPT !.calls = Append(@, c)]

(***************************************************************************)
(* input.c: the device list.  A Device** is 0 for &devices and a for       *)
(* &a->next.                                                               *)
(***************************************************************************)
Load(w, slot) == IF slot = 0 THEN w.devices ELSE w.heap[slot].next

Store(w, slot, ptr) ==
  IF slot = 0 THEN [w EXCEPT !.devices = ptr]
  ELSE [w EXCEPT !.heap[slot].next = ptr]

\* pre_init's loop: while (*device->prev_next) prev_next = &(*prev_next)->next
RECURSIVE LastSlot(_, _)
LastSlot(w, slot) ==
  IF Load(w, slot) = NULL THEN slot ELSE LastSlot(w, Load(w, slot))

\* calloc: an address no live record has
calloc(w) ==
  CHOOSE a \in 1..(Cardinality(DOMAIN w.heap) + 1) :
    /\ a \notin DOMAIN w.heap
    /\ \A b \in 1..(a - 1) : b \in DOMAIN w.heap

\* pInfo->private
Private(w, pInfo) == CHOOSE a \in DOMAIN w.heap : w.heap[a].device = pInfo

pre_init(w, pInfo) ==
  IF w.current_type \notin {TyKeyboard, TyMouse, TyTouch}
  THEN Abort(w, "Invalid type")
  ELSE
    LET device == calloc(w)
        prev_next == LastSlot(w, 0)
        rec == [next |-> NULL, prev_next |-> prev_next,
                type |-> w.current_type, device |-> pInfo, mask |-> NoMask]
        w1 == [w EXCEPT !.heap = [a \in DOMAIN w.heap \cup {device} |->
                                    IF a = device THEN rec ELSE w.heap[a]]]
    IN Store(w1, prev_next, device)

init_pointer(w, dev) ==
  Call([w EXCEPT !.heap[Private(w, dev)].mask = valuator_mask_new],
       [call |-> "InitPointerDeviceStruct", dev |-> dev])

init_touch(w, dev) ==
  Call(init_pointer(w, dev), [call |-> "InitTouchClassDeviceStruct", dev |-> dev])

init_mouse(w, dev) ==
  Call(init_pointer(w, dev), [call |-> "SetScrollValuator", dev |-> dev])

\* device_control(dev, DEVICE_INIT) without the case TyTouch
device_control_NoTouchInit(w, dev) ==
  LET device == w.heap[Private(w, dev)]
  IN CASE device.type = TyKeyboard ->
            Call(w, [call |-> "InitKeyboardDeviceStruct", dev |-> dev])
       [] device.type = TyMouse -> init_mouse(w, dev)
       [] OTHER -> w

\* device_control(dev, DEVICE_INIT)
device_control(w, dev) ==
  LET device == w.heap[Private(w, dev)]
  IN CASE device.type = TyKeyboard ->
            Call(w, [call |-> "InitKeyboardDeviceStruct", dev |-> dev])
       [] device.type = TyMouse -> init_mouse(w, dev)
       [] device.type = TyTouch -> init_touch(w, dev)
       [] OTHER -> w

\* un_init without the release of the mask
un_init_KeepsMask(w, pInfo) ==
  LET device == Private(w, pInfo)
      rec == w.heap[device]
      w1 == Store(w, rec.prev_next, rec.next)
      w2 == IF rec.next # NULL
            THEN [w1 EXCEPT !.heap[rec.next].prev_next = rec.prev_next]
            ELSE w1
  IN [w2 EXCEPT !.heap = [a \in DOMAIN w2.heap \ {device} |-> w2.heap[a]]]

\* un_init without the update of the next record's back-link
un_init_StaleBackLink(w, pInfo) ==
  LET device == Private(w, pInfo)
      rec == w.heap[device]
      w1 == Store(w, rec.prev_next, rec.next)
      w3 == IF rec.mask.alloc
            THEN Call(w1, [call |-> "valuator_mask_free", dev |-> pInfo])
            ELSE w1
  IN [w3 EXCEPT !.heap = [a \in DOMAIN w3.heap \ {device} |-> w3.heap[a]]]

un_init(w, pInfo) ==
  LET device == Private(w, pInfo)
      rec == w.heap[device]
      w1 == Store(w, rec.prev_next, rec.next)
      w2 == IF rec.next # NULL
            THEN [w1 EXCEPT !.heap[rec.next].prev_next = rec.prev_next]
            ELSE w1
      w3 == IF rec.mask.alloc
            THEN Call(w2, [call |-> "valuator_mask_free", dev |-> pInfo])
            ELSE w2
  IN [w3 EXCEPT !.heap = [a \in DOMAIN w3.heap \ {device} |-> w3.heap[a]]]


(***************************************************************************)
(* X server: NewInputDeviceRequest and DeleteInputDeviceRequest.  The      *)
(* server runs the driver's PreInit and DEVICE_INIT inside the request; it *)
(* gives the device an id that no device it still holds has, and rejects   *)
(* the request when it has none left (newdev = NULL).  UnInit runs inside  *)
(* DeleteInputDeviceRequest (sync) or on a later turn of the server's      *)
(* loop.                                                                   *)
(***************************************************************************)
NewInputDeviceRequest(w, name, newdev) ==
  IF newdev = NULL
  THEN [w |-> w, status |-> 1, dev |-> NULL]
  ELSE LET w1 == pre_init(Call(w, [call |-> "NewInputDeviceRequest",
                                   name |-> name, dev |-> newdev]), newdev)
       IN IF ~Running(w1) THEN [w |-> w1, status |-> 1, dev |-> NULL]
          ELSE [w |-> device_control(w1, newdev), status |-> 0, dev |-> newdev]

DeleteInputDeviceRequest(w, dev, sync) ==
  LET w1 == Call(w, [call |-> "DeleteInputDeviceRequest", dev |-> dev])
  IN IF dev \in w1.closing THEN w1
     ELSE IF sync THEN un_init(w1, dev)
     ELSE [w1 EXCEPT !.closing = @ \cup {dev}]

(***************************************************************************)
(* input.c: creation                                                       *)
(***************************************************************************)
\* faulty variant: the counter that names the device is returned
input_new_ReturnsCounter(w, prefix, newdev) ==
  LET id == w.next_input_id
      w1 == [w EXCEPT !.next_input_id = @ + 1]
      r == NewInputDeviceRequest(w1, <<prefix, id>>, newdev)
  IN IF r.status # 0
     THEN [w |-> Abort(r.w, "assert(!NewInputDeviceRequest(options, NULL, &dev))"),
           ret |-> 0]
     ELSE [w |-> r.w, ret |-> id]

\* returns the world and the id: (uint32_t)dev->id
input_new(w, prefix, newdev) ==
  LET id == w.next_input_id
      w1 == [w EXCEPT !.next_input_id = @ + 1]
      r == NewInputDeviceRequest(w1, <<prefix, id>>, newdev)
  IN IF r.status # 0
     THEN [w |-> Abort(r.w, "assert(!NewInputDeviceRequest(options, NULL, &dev))"),
           ret |-> 0]
     ELSE [w |-> r.w, ret |-> r.dev]

input_new_keyboard(w, newdev) ==
  input_new([w EXCEPT !.current_type = TyKeyboard], "keyboard", newdev)

\* faulty variant: current_type is left as the last creation set it
input_new_mouse_StaleType(w, newdev) == input_new(w, "mouse", newdev)

input_new_mouse(w, newdev) ==
  input_new([w EXCEPT !.current_type = TyMouse], "mouse", newdev)

input_new_touch(w, newdev) ==
  input_new([w EXCEPT !.current_type = TyTouch], "touchscreen", newdev)

(***************************************************************************)
(* input.c: lookup                                                         *)
(***************************************************************************)
\* device->device->dev->id
DevId(w, device) == w.heap[device].device

RECURSIVE Scan(_, _, _)
Scan(w, device, id) ==
  IF device = NULL THEN NULL
  ELSE IF DevId(w, device) = id THEN device
  ELSE Scan(w, w.heap[device].next, id)

get_device(w, id) ==
  LET device == Scan(w, w.devices, id)
  IN IF device = NULL
     THEN [w |-> Abort(w, "assert(device)"), ret |-> NULL]
     ELSE [w |-> w, ret |-> device]

\* faulty variant: the kind of the device is not asserted
get_typed_NoKindCheck(w, id, type, assertion) == get_device(w, id)

get_typed(w, id, type, assertion) ==
  LET r == get_device(w, id)
  IN IF ~Running(r.w) THEN r
     ELSE IF w.heap[r.ret].type # type
     THEN [w |-> Abort(w, assertion), ret |-> NULL]
     ELSE r

get_keyboard(w, keyboard) ==
  get_typed(w, keyboard, TyKeyboard, "assert(device->type == TyKeyboard)")

get_mouse(w, mouse) ==
  get_typed(w, mouse, TyMouse, "assert(device->type == TyMouse)")

get_touch(w, touch) ==
  get_typed(w, touch, TyTouch, "assert(device->type == TyTouch)")


(***************************************************************************)
(* input.c: event synthesis.  The uint8_t parameters take the low byte of  *)
(* the argument.                                                           *)
(***************************************************************************)
\* input_key without the conversion of key to uint8_t
input_key_WideKey(w, keyboard, key, is_down) ==
  LET r == get_keyboard(w, keyboard)
  IN IF ~Running(r.w) THEN r.w
     ELSE Call(w, [call |-> "xf86PostKeyboardEvent", dev |-> DevId(w, r.ret),
                   key_code |-> key + MIN_KEYCODE,
                   is_down |-> is_down])

input_key(w, keyboard, key, is_down) ==
  LET r == get_keyboard(w, keyboard)
  IN IF ~Running(r.w) THEN r.w
     ELSE Call(w, [call |-> "xf86PostKeyboardEvent", dev |-> DevId(w, r.ret),
                   key_code |-> ToUint8(key) + MIN_KEYCODE,
                   is_down |-> is_down])

input_key_press(w, keyboard, key) == input_key(w, keyboard, key, 1)

input_key_release(w, keyboard, key) == input_key(w, keyboard, key, 0)

\* input_button that clears the mask of the mouse before the event
input_button_ZeroesMask(w, mouse, button, is_down) ==
  LET r == get_mouse(w, mouse)
  IN IF ~Running(r.w) THEN r.w
     ELSE Call([w EXCEPT !.heap[r.ret].mask = valuator_mask_zero(@)],
               [call |-> "xf86PostButtonEvent", dev |-> DevId(w, r.ret),
                is_absolute |-> "Relative", button |-> ToUint8(button),
                is_down |-> is_down])

input_button(w, mouse, button, is_down) ==
  LET r == get_mouse(w, mouse)
  IN IF ~Running(r.w) THEN r.w
     ELSE Call(w, [call |-> "xf86PostButtonEvent", dev |-> DevId(w, r.ret),
                   is_absolute |-> "Relative", button |-> ToUint8(button),
                   is_down |-> is_down])

input_button_press(w, mouse, button) == input_button(w, mouse, button, 1)

input_button_release(w, mouse, button) == input_button(w, mouse, button, 0)

\* faulty variant: the mask is not zeroed first
input_mouse_move_NoZero(w, mouse, dx, dy) ==
  LET r == get_mouse(w, mouse)
  IN IF ~Running(r.w) THEN r.w
     ELSE
       LET device == r.ret
           m0 == w.heap[device].mask
           m1 == valuator_mask_set_unaccelerated(m0, 0, dx, dx)
           m2 == valuator_mask_set_unaccelerated(m1, 1, dy, dy)
       IN Call([w EXCEPT !.heap[device].mask = m2],
               [call |-> "xf86PostMotionEventM", dev |-> DevId(w, device),
                is_absolute |-> "Relative", mask |-> m2])

input_mouse_move(w, mouse, dx, dy) ==
  LET r == get_mouse(w, mouse)
  IN IF ~Running(r.w) THEN r.w
     ELSE
       LET device == r.ret
           m0 == valuator_mask_zero(w.heap[device].mask)
           m1 == valuator_mask_set_unaccelerated(m0, 0, dx, dx)
           m2 == valuator_mask_set_unaccelerated(m1, 1, dy, dy)
       IN Call([w EXCEPT !.heap[device].mask = m2],
               [call |-> "xf86PostMotionEventM", dev |-> DevId(w, device),
                is_absolute |-> "Relative", mask |-> m2])

\* a scroll delta times 120 in int arithmetic.  A product outside int is
\* undefined: the build either traps (trap) or keeps the low 32 bits.
Times120(w, d, trap) ==
  IF Fits120(d) THEN [w |-> w, ret |-> d * 120]
  ELSE IF trap THEN [w |-> Abort(w, "signed integer overflow"), ret |-> 0]
  ELSE [w |-> w, ret |-> Wrap120(d)]

input_mouse_scroll(w, mouse, dx, dy, trap) ==
  LET r == get_mouse(w, mouse)
  IN IF ~Running(r.w) THEN r.w
     ELSE
       LET device == r.ret
           m0 == valuator_mask_zero(w.heap[device].mask)
           px == IF dx # 0 THEN Times120(w, dx, trap) ELSE [w |-> w, ret |-> 0]
           m1 == IF dx # 0 THEN valuator_mask_set(m0, 2, px.ret) ELSE m0
           py == IF dy # 0 THEN Times120(w, dy, trap) ELSE [w |-> w, ret |-> 0]
           m2 == IF dy # 0 THEN valuator_mask_set(m1, 3, py.ret) ELSE m1
       IN IF ~Running(px.w)
          THEN [px.w EXCEPT !.heap[device].mask = m0]
          ELSE IF ~Running(py.w)
          THEN [py.w EXCEPT !.heap[device].mask = m1]
          ELSE Call([w EXCEPT !.heap[device].mask = m2],
                    [call |-> "xf86PostMotionEventM", dev |-> DevId(w, device),
                     is_absolute |-> "Relative", mask |-> m2])

\* faulty variant: TOUCH_ID is read and not incremented
input_touch_down_NoIncrement(w, touch, x, y) ==
  LET r == get_touch(w, touch)
  IN IF ~Running(r.w) THEN r
     ELSE
       LET device == r.ret
           m0 == valuator_mask_zero(w.heap[device].mask)
           m1 == valuator_mask_set(m0, 0, x)
           m2 == valuator_mask_set(m1, 1, y)
           touch_id == w.TOUCH_ID
       IN [w |-> Call([w EXCEPT !.heap[device].mask = m2],
                      [call |-> "xf86PostTouchEvent", dev |-> DevId(w, device),
                       touchid |-> touch_id, type |-> "XI_TouchBegin",
                       mask |-> m2]),
           ret |-> touch_id]

\* returns the world and the touch id
input_touch_down(w, touch, x, y) ==
  LET r == get_touch(w, touch)
  IN IF ~Running(r.w) THEN r
     ELSE
       LET device == r.ret
           m0 == valuator_mask_zero(w.heap[device].mask)
           m1 == valuator_mask_set(m0, 0, x)
           m2 == valuator_mask_set(m1, 1, y)
           touch_id == w.TOUCH_ID
       IN [w |-> Call([w EXCEPT !.heap[device].mask = m2,
                                !.TOUCH_ID = @ + 1],
                      [call |-> "xf86PostTouchEvent", dev |-> DevId(w, device),
                       touchid |-> touch_id, type |-> "XI_TouchBegin",
                       mask |-> m2]),
           ret |-> touch_id]

input_touch_up(w, touch, touch_id) ==
  LET r == get_touch(w, touch)
  IN IF ~Running(r.w) THEN r.w
     ELSE Call(w, [call |-> "xf86PostTouchEvent", dev |-> DevId(w, r.ret),
                   touchid |-> touch_id, type |-> "XI_TouchEnd",
                   mask |-> NoMask])

input_touch_move(w, touch, touch_id, x, y) ==
  LET r == get_touch(w, touch)
  IN IF ~Running(r.w) THEN r.w
     ELSE
       LET device == r.ret
           m0 == valuator_mask_zero(w.heap[device].mask)
           m1 == valuator_mask_set(m0, 0, x)
           m2 == valuator_mask_set(m1, 1, y)
       IN Call([w EXCEPT !.heap[device].mask = m2],
               [call |-> "xf86PostTouchEvent", dev |-> DevId(w, device),
                touchid |-> touch_id, type |-> "XI_TouchUpdate",
                mask |-> m2])

input_remove_device(w, id, sync) ==
  LET r == get_device(w, id)
  IN IF ~Running(r.w) THEN r.w
     ELSE DeleteInputDeviceRequest(w, DevId(w, r.ret), sync)


(***************************************************************************)
(* video.c.  The ids of the CRTCs, outputs and modes are the X server's;   *)
(* screen_init leaves them fixed.                                          *)
(***************************************************************************)
NUM_OUTPUTS == 2

Outputs == 0..(NUM_OUTPUTS - 1)

\* crtc->randr_crtc->id and output->randr_output->id of driver.outputs[i]
RRCrtcId(i) == 63 + i
RROutputId(i) == 65 + i

\* output 0's RandR modes: pre_init's mode1 and mode2, copied by
\* dummy_output_get_modes, with the ids the server gave them
Output0Modes == <<[width |-> 1024, id |-> 67], [width |-> 800, id |-> 68]>>

\* driver.outputs after screen_init
screen_init ==
  [i \in Outputs |-> [connected |-> (i = 0), crtc |-> RRCrtcId(i),
                      output |-> RROutputId(i),
                      mm_width |-> 2000, mm_height |-> 1000]]

\* TRUE for XF86OutputStatusConnected
output_detect(driver_output) == driver_output.connected

\* X server: RRGetInfo(screen, TRUE) asks every output's detect and
\* publishes the answers
RRGetInfo(w) ==
  LET published == [i \in Outputs |-> output_detect(w.outputs[i])]
  IN Call([w EXCEPT !.randr.connection = published, !.randr.changed = FALSE],
          [call |-> "RRGetInfo", force_query |-> TRUE,
           connection |-> published])

\* the calls record what driver.outputs held when they were made
RRSetChanged(w) ==
  Call([w EXCEPT !.randr.changed = TRUE],
       [call |-> "RRSetChanged", outputs |-> w.outputs])

xf86RandR12TellChanged(w) ==
  Call(w, [call |-> "xf86RandR12TellChanged", changed |-> w.randr.changed,
           outputs |-> w.outputs])

\* faulty variant: the flag is set, never cleared
video_connect_second_monitor_OnlyConnects(w, connected) ==
  LET w1 == [w EXCEPT !.outputs[1].connected = @ \/ ToBool(connected),
                      !.outputs[1].mm_width = 20,
                      !.outputs[1].mm_height = 20]
  IN RRGetInfo(xf86RandR12TellChanged(RRSetChanged(w1)))

\* faulty variant: the flag of output 0 is written
video_connect_second_monitor_FirstOutput(w, connected) ==
  LET w1 == [w EXCEPT !.outputs[0].connected = ToBool(connected),
                      !.outputs[1].mm_width = 20,
                      !.outputs[1].mm_height = 20]
  IN RRGetInfo(xf86RandR12TellChanged(RRSetChanged(w1)))

\* faulty variant: the server is not asked to recompute
video_connect_second_monitor_NoGetInfo(w, connected) ==
  LET w1 == [w EXCEPT !.outputs[1].connected = ToBool(connected),
                      !.outputs[1].mm_width = 20,
                      !.outputs[1].mm_height = 20]
  IN xf86RandR12TellChanged(RRSetChanged(w1))

video_connect_second_monitor(w, connected) ==
  LET w1 == [w EXCEPT !.outputs[1].connected = ToBool(connected),
                      !.outputs[1].mm_width = 20,
                      !.outputs[1].mm_height = 20]
  IN RRGetInfo(xf86RandR12TellChanged(RRSetChanged(w1)))

\* faulty variant: the last mode is not visited
RECURSIVE ModeLoop_StopsEarly(_, _, _)
ModeLoop_StopsEarly(modes, i, out) ==
  IF i >= Len(modes) THEN out
  ELSE ModeLoop_StopsEarly(modes, i + 1,
                           IF modes[i].width = 1024
                           THEN [out EXCEPT !.large_mode_id = modes[i].id]
                           ELSE [out EXCEPT !.small_mode_id = modes[i].id])

\* the loop over output->modes
RECURSIVE ModeLoop(_, _, _)
ModeLoop(modes, i, out) ==
  IF i > Len(modes) THEN out
  ELSE ModeLoop(modes, i + 1,
                IF modes[i].width = 1024
                THEN [out EXCEPT !.large_mode_id = modes[i].id]
                ELSE [out EXCEPT !.small_mode_id = modes[i].id])

\* faulty variant: the second output's ids are reported only while it is
\* connected
video_get_info_WhileConnected(w, out) ==
  ModeLoop(Output0Modes, 1,
           [out EXCEPT !.second_crtc = IF w.outputs[1].connected
                                       THEN w.outputs[1].crtc ELSE 0,
                       !.first_output = w.outputs[0].output,
                       !.second_output = IF w.outputs[1].connected
                                         THEN w.outputs[1].output ELSE 0])

\* out: the five locations the pointers designate, with what they held
video_get_info(w, out) ==
  ModeLoop(Output0Modes, 1,
           [out EXCEPT !.second_crtc = w.outputs[1].crtc,
                       !.first_output = w.outputs[0].output,
                       !.second_output = w.outputs[1].output])

(***************************************************************************)
(* main.c: the Message union is five 32-bit words; every variant starts    *)
(* with type, and the members name the words after it.                     *)
(***************************************************************************)
Message(type, w1, w2, w3, w4) == <<type, w1, w2, w3, w4>>

msg_type(m) == m[1]
key_press_id(m) == m[2]
key_press_key(m) == m[3]
touch_down_id(m) == m[2]
touch_down_x(m) == m[3]
touch_down_y(m) == m[4]
touch_move_id(m) == m[2]
touch_move_touch_id(m) == m[3]
touch_move_x(m) == m[4]
touch_move_y(m) == m[5]
mouse_move_id(m) == m[2]
mouse_move_dx(m) == m[3]
mouse_move_dy(m) == m[4]
remove_device_id(m) == m[2]
enable_second_monitor_enable(m) == m[2]

\* read(fd, &message, sizeof(message)): the words of message after a read
\* that returned nread bytes of the words sent; message is a local without
\* initializer, the words not stored keep what the stack held
read(message, sent, nread) ==
  [i \in 1..Len(message) |-> IF 4 * i <= nread THEN sent[i] ELSE message[i]]

\* assert(write(fd, &reply, sizeof(reply)) > 0); reply: the words of the struct
write(w, reply, wok) ==
  IF ~Running(w) THEN w
  ELSE IF wok THEN Call(w, [call |-> "write", reply |-> reply])
  ELSE Abort(w, "assert(write(fd, &reply, sizeof(reply)) > 0)")

\* faulty variant: the words in the order of video_get_info's parameters
GetVideoInfoReply_ParameterOrder(r) ==
  <<r.type, r.second_crtc, r.first_output, r.second_output,
    r.small_mode_id, r.large_mode_id>>

\* struct GetVideoInfoReply, in the order of its members
GetVideoInfoReply(r) ==
  <<r.type, r.second_crtc, r.second_output, r.first_output,
    r.large_mode_id, r.small_mode_id>>

\* the arms of the switch that the properties below single out
\* faulty variant: the mouse arm answers with the keyboard's reply tag
\* case MT_ENABLE_SECOND_MONITOR with the reply written before the command
\* is carried out
case_MT_ENABLE_SECOND_MONITOR_ReplyFirst(w, message, h) ==
  LET w1 == write(w, <<MT_ENABLE_SECOND_MONITOR_REPLY, 0, 0, 0, 0>>, h.wok)
  IN IF ~Running(w1) THEN w1
     ELSE video_connect_second_monitor(
            w1, enable_second_monitor_enable(message))

case_MT_ENABLE_SECOND_MONITOR(w, message, h) ==
  LET w1 == video_connect_second_monitor(
              w, enable_second_monitor_enable(message))
  IN write(w1, <<MT_ENABLE_SECOND_MONITOR_REPLY, 0, 0, 0, 0>>, h.wok)

case_MT_CREATE_MOUSE_KeyboardTag(w, h) ==
  LET r == input_new_mouse(w, h.newdev)
  IN write(r.w, <<MT_CREATE_KEYBOARD_REPLY, r.ret>>, h.wok)

case_MT_CREATE_MOUSE(w, h) ==
  LET r == input_new_mouse(w, h.newdev)
  IN write(r.w, <<MT_CREATE_MOUSE_REPLY, r.ret>>, h.wok)

\* faulty variant: an unknown tag is skipped
case_default_Ignored(w, type) == w

case_default(w, type) ==
  Abort(Call(w, [call |-> "LogMessage", type |-> type]),
        "Invalid message type")

\* h: what the environment decides during this call: nread (read's result),
\* wok (write succeeds), newdev (the X device id for a new device, or NULL),
\* sync (UnInit runs inside DeleteInputDeviceRequest), trap (overflow traps)
handle_message(w, message, h) ==
  LET w0 == Call(w, [call |-> "read", nread |-> h.nread, message |-> message])
      type == msg_type(message)
  IN
  IF h.nread <= 0
  THEN Abort(w0, "assert(read(fd, &message, sizeof(message)) > 0)")
  ELSE
  CASE type = MT_CREATE_KEYBOARD ->
         LET r == input_new_keyboard(w0, h.newdev)
         IN write(r.w, <<MT_CREATE_KEYBOARD_REPLY, r.ret>>, h.wok)
    [] type = MT_CREATE_MOUSE -> case_MT_CREATE_MOUSE(w0, h)
    [] type = MT_CREATE_TOUCH ->
         LET r == input_new_touch(w0, h.newdev)
         IN write(r.w, <<MT_CREATE_TOUCH_REPLY, r.ret>>, h.wok)
    [] type = MT_KEY_PRESS ->
         input_key_press(w0, key_press_id(message), key_press_key(message))
    [] type = MT_KEY_RELEASE ->
         input_key_release(w0, key_press_id(message), key_press_key(message))
    [] type = MT_BUTTON_PRESS ->
         input_button_press(w0, key_press_id(message), key_press_key(message))
    [] type = MT_BUTTON_RELEASE ->
         input_button_release(w0, key_press_id(message), key_press_key(message))
    [] type = MT_MOUSE_MOVE ->
         input_mouse_move(w0, mouse_move_id(message), mouse_move_dx(message),
                          mouse_move_dy(message))
    [] type = MT_MOUSE_SCROLL ->
         input_mouse_scroll(w0, mouse_move_id(message), mouse_move_dx(message),
                            mouse_move_dy(message), h.trap)
    [] type = MT_REMOVE_DEVICE ->
         input_remove_device(w0, remove_device_id(message), h.sync)
    [] type = MT_ENABLE_SECOND_MONITOR ->
         case_MT_ENABLE_SECOND_MONITOR(w0, message, h)
    [] type = MT_GET_VIDEO_INFO ->
         LET reply == [type |-> MT_GET_VIDEO_INFO_REPLY, second_crtc |-> 0,
                       second_output |-> 0, first_output |-> 0,
                       large_mode_id |-> 0, small_mode_id |-> 0]
         IN write(w0, GetVideoInfoReply(video_get_info(w0, reply)), h.wok)
    [] type = MT_TOUCH_DOWN ->
         LET r == input_touch_down(w0, touch_down_id(message),
                                   touch_down_x(message), touch_down_y(message))
         IN write(r.w, <<MT_TOUCH_DOWN_REPLY, r.ret>>, h.wok)
    [] type = MT_TOUCH_MOVE ->
         input_touch_move(w0, touch_move_id(message),
                          touch_move_touch_id(message), touch_move_x(message),
                          touch_move_y(message))
    [] type = MT_TOUCH_UP ->
         input_touch_up(w0, touch_move_id(message), touch_move_touch_id(message))
    [] OTHER -> case_default(w0, type)


(***************************************************************************)
(* Init: the process after winit_setup and screen_init.                    *)
(***************************************************************************)
Init ==
  /\ heap = << >>
  /\ devices = NULL
  /\ current_type = 0
  /\ next_input_id = 1
  /\ TOUCH_ID = 1
  /\ outputs = screen_init
  /\ randr = [changed |-> FALSE,
              connection |-> [i \in Outputs |-> output_detect(screen_init[i])]]
  /\ closing = {}
  /\ fatal = "none"
  /\ calls = << >>
  /\ handed = {}
  /\ touch_replies = << >>
  /\ removed = {}

(***************************************************************************)
(* One step: handle_message runs once, from the read to its return.  The   *)
(* actions take the values the test driver may put in the message; words a *)
(* variant does not have are never read and are sent as 0.                 *)
(***************************************************************************)
Env(newdev, wok, sync, trap) ==
  [nread |-> MessageSize, wok |-> wok, newdev |-> newdev, sync |-> sync,
   trap |-> trap]

Env0 == Env(NULL, TRUE, FALSE, FALSE)

\* the replies written among the calls cs, and the second word of those
\* that carry one of the tags
Written(cs) == SelectSeq(cs, LAMBDA c : c.call = "write")

RECURSIVE ReplyWords(_, _)
ReplyWords(ws, tags) ==
  IF ws = << >> THEN << >>
  ELSE (IF Head(ws).reply[1] \in tags THEN <<Head(ws).reply[2]>> ELSE << >>)
       \o ReplyWords(Tail(ws), tags)

CreateReplyTags ==
  {MT_CREATE_KEYBOARD_REPLY, MT_CREATE_MOUSE_REPLY, MT_CREATE_TOUCH_REPLY}

\* the ids for which the calls cs asked the server to remove the device
Deleted(cs) ==
  {cs[i].dev : i \in {j \in 1..Len(cs) :
                        cs[j].call = "DeleteInputDeviceRequest"}}

\* the ids the calls cs handed out in a Create reply
Created(cs) ==
  LET ids == ReplyWords(Written(cs), CreateReplyTags)
  IN {ids[i] : i \in 1..Len(ids)}

Step(message, h) ==
  /\ fatal = "none"
  /\ LET w == handle_message([World EXCEPT !.calls = << >>], message, h)
     IN /\ Install(w)
        /\ handed' = handed \cup Created(w.calls)
        /\ touch_replies' =
             touch_replies \o ReplyWords(Written(w.calls), {MT_TOUCH_DOWN_REPLY})
        /\ removed' = (removed \cup Deleted(w.calls))
                         \ Created(w.calls)

\* lim: the bounds of a specification: ids (the device ids the server has),
\* creates and downs (the calls of input_new and input_touch_down followed)
Limits(devs, creates, downs) ==
  [ids |-> 1..devs, creates |-> creates, downs |-> downs]

\* the device id the server gives to a new device: any it does not hold
HeldIds == {heap[a].device : a \in DOMAIN heap}

NewDevs(lim) == IF lim.ids \ HeldIds = {} THEN {NULL} ELSE lim.ids \ HeldIds

Create(type, lim, woks) ==
  /\ next_input_id <= lim.creates
  /\ \E newdev \in NewDevs(lim), wok \in woks :
       Step(Message(type, 0, 0, 0, 0), Env(newdev, wok, FALSE, FALSE))

CreateKeyboard(lim, woks) == Create(MT_CREATE_KEYBOARD, lim, woks)
CreateMouse(lim, woks) == Create(MT_CREATE_MOUSE, lim, woks)
CreateTouch(lim, woks) == Create(MT_CREATE_TOUCH, lim, woks)

KeyPress(ids, keys) ==
  \E id \in ids, key \in keys :
    Step(Message(MT_KEY_PRESS, id, key, 0, 0), Env0)

KeyRelease(ids, keys) ==
  \E id \in ids, key \in keys :
    Step(Message(MT_KEY_RELEASE, id, key, 0, 0), Env0)

ButtonPress(ids, buttons) ==
  \E id \in ids, button \in buttons :
    Step(Message(MT_BUTTON_PRESS, id, button, 0, 0), Env0)

ButtonRelease(ids, buttons) ==
  \E id \in ids, button \in buttons :
    Step(Message(MT_BUTTON_RELEASE, id, button, 0, 0), Env0)

MouseMove(ids, moves) ==
  \E id \in ids, d \in moves :
    Step(Message(MT_MOUSE_MOVE, id, d[1], d[2], 0), Env0)

MouseScroll(ids, scrolls) ==
  \E id \in ids, d \in scrolls, trap \in BOOLEAN :
    Step(Message(MT_MOUSE_SCROLL, id, d[1], d[2], 0),
         Env(NULL, TRUE, FALSE, trap))

TouchDown(lim, ids, points, woks) ==
  /\ TOUCH_ID <= lim.downs
  /\ \E id \in ids, p \in points, wok \in woks :
       Step(Message(MT_TOUCH_DOWN, id, p[1], p[2], 0),
            Env(NULL, wok, FALSE, FALSE))

TouchMove(ids, touch_ids, points) ==
  \E id \in ids, touch_id \in touch_ids, p \in points :
    Step(Message(MT_TOUCH_MOVE, id, touch_id, p[1], p[2]), Env0)

TouchUp(ids, touch_ids) ==
  \E id \in ids, touch_id \in touch_ids :
    Step(Message(MT_TOUCH_UP, id, touch_id, 0, 0), Env0)

RemoveDevice(ids) ==
  \E id \in ids, sync \in BOOLEAN :
    Step(Message(MT_REMOVE_DEVICE, id, 0, 0, 0), Env(NULL, TRUE, sync, FALSE))

EnableSecondMonitor(enables, woks) ==
  \E enable \in enables, wok \in woks :
    Step(Message(MT_ENABLE_SECOND_MONITOR, enable, 0, 0, 0),
         Env(NULL, wok, FALSE, FALSE))

GetVideoInfo(woks) ==
  \E wok \in woks :
    Step(Message(MT_GET_VIDEO_INFO, 0, 0, 0, 0), Env(NULL, wok, FALSE, FALSE))

OtherTag(types) ==
  \E type \in types : Step(Message(type, 0, 0, 0, 0), Env0)

\* read returns 0 (end of file) or -1: nothing was stored in message
ReadFails ==
  \E nread \in {-1, 0} :
    Step(Message(0, 0, 0, 0, 0), [Env0 EXCEPT !.nread = nread])

\* read returns fewer bytes than sizeof(message): only the first words of
\* what was sent are in message, the others are what the stack held
ShortRead(lim, types, sizes, stacks) ==
  \E type \in types, id \in lim.ids, nread \in sizes, stack \in stacks,
     newdev \in NewDevs(lim) :
    /\ type \in {MT_CREATE_KEYBOARD, MT_CREATE_MOUSE, MT_CREATE_TOUCH}
         => next_input_id <= lim.creates
    /\ Step(read(stack, Message(type, id, 0, 0, 0), nread),
            [Env(newdev, TRUE, FALSE, FALSE) EXCEPT !.nread = nread])

\* X server: the UnInit of a device whose removal was requested earlier
UnInit ==
  /\ fatal = "none"
  /\ \E dev \in closing :
       LET w0 == [World EXCEPT !.calls = <<[call |-> "UnInit", dev |-> dev]>>]
       IN Install([un_init(w0, dev) EXCEPT !.closing = @ \ {dev}])
  /\ UNCHANGED <<handed, touch_replies, removed>>

(***************************************************************************)
(* The values the specifications draw the messages from.                   *)
(***************************************************************************)
RequestTags == {MT_CREATE_KEYBOARD, MT_CREATE_MOUSE, MT_CREATE_TOUCH,
                MT_KEY_PRESS, MT_KEY_RELEASE, MT_BUTTON_PRESS,
                MT_BUTTON_RELEASE, MT_MOUSE_MOVE, MT_MOUSE_SCROLL,
                MT_REMOVE_DEVICE, MT_ENABLE_SECOND_MONITOR, MT_GET_VIDEO_INFO,
                MT_TOUCH_DOWN, MT_TOUCH_MOVE, MT_TOUCH_UP}

\* tags that are no request: MT_NONE, the reply tags, and one past the enum
OtherTags == (0..(MT_TOUCH_MOVE + 1)) \ RequestTags

\* the write of a reply succeeds, or fails
Writes == {TRUE, FALSE}

(***************************************************************************)
(* Spec: the whole protocol, one value for each argument.                  *)
(***************************************************************************)
Proto == Limits(ProtoDevices, ProtoCreates, ProtoTouchDowns)

Next ==
  \/ CreateKeyboard(Proto, Writes)
  \/ CreateMouse(Proto, Writes)
  \/ CreateTouch(Proto, Writes)
  \/ KeyPress(Proto.ids, {511}) \/ KeyRelease(Proto.ids, {511})
  \/ ButtonPress(Proto.ids, {258}) \/ ButtonRelease(Proto.ids, {258})
  \/ MouseMove(Proto.ids, {<<-3, 7>>})
  \/ MouseScroll(Proto.ids, {<<0, 5>>})
  \/ TouchDown(Proto, Proto.ids, {<<1, 2>>}, Writes)
  \/ TouchMove(Proto.ids, {1}, {<<1023, 767>>})
  \/ TouchUp(Proto.ids, {1})
  \/ RemoveDevice(Proto.ids) \/ UnInit
  \/ EnableSecondMonitor({0, 1}, Writes) \/ GetVideoInfo(Writes)
  \/ OtherTag(OtherTags) \/ ReadFails

Spec == Init /\ [][Next]_vars

\* the devices the specifications of one part of the protocol have
Part == Limits(MaxDevices, MaxCreates, MaxTouchDowns)

(***************************************************************************)
(* SpecTouch: touch devices, created and removed between the touches.      *)
(***************************************************************************)
NextTouch ==
  \/ CreateTouch(Part, {TRUE})
  \/ TouchDown(Part, Part.ids, {<<1, 2>>}, {TRUE})
  \/ TouchMove(Part.ids, {1}, {<<1023, 767>>})
  \/ TouchUp(Part.ids, {1})
  \/ RemoveDevice(Part.ids) \/ UnInit

SpecTouch == Init /\ [][NextTouch]_vars

(***************************************************************************)
(* SpecMouse: mice, with moves and scrolls of several sizes.               *)
(***************************************************************************)
\* (dx, dy) of MouseMove
Moves == {<<-3, 7>>, <<0, 0>>, <<10, 0>>, <<INT32_MIN, INT32_MAX>>}

\* (dx, dy) of MouseScroll; 17895697 * 120 is the last product that fits in
\* an int, 17895698 * 120 the first above INT32_MAX
Scrolls == {<<0, 5>>, <<0, 0>>, <<-2, 0>>, <<17895697, -17895697>>,
            <<17895698, 3>>}

\* one mouse at a time; it may be removed and a mouse created again
Mice == Limits(ProtoDevices, MaxCreates, ProtoTouchDowns)

NextMouse ==
  \/ CreateMouse(Mice, {TRUE})
  \/ MouseMove(Mice.ids, Moves)
  \/ MouseScroll(Mice.ids, Scrolls)
  \/ ButtonPress(Mice.ids, {258})
  \/ RemoveDevice(Mice.ids) \/ UnInit

SpecMouse == Init /\ [][NextMouse]_vars

(***************************************************************************)
(* SpecInput: devices of the three kinds, and the commands for each kind.  *)
(***************************************************************************)
NextInput ==
  \/ CreateKeyboard(Part, {TRUE})
  \/ CreateMouse(Part, {TRUE})
  \/ CreateTouch(Part, {TRUE})
  \/ KeyPress(Part.ids, {511})
  \/ ButtonPress(Part.ids, {258})
  \/ MouseMove(Part.ids, {<<-3, 7>>})
  \/ MouseScroll(Part.ids, {<<0, 5>>})
  \/ TouchDown(Part, Part.ids, {<<1, 2>>}, {TRUE})
  \/ TouchMove(Part.ids, {1}, {<<1023, 767>>})
  \/ TouchUp(Part.ids, {1})

SpecInput == Init /\ [][NextInput]_vars

(***************************************************************************)
(* SpecRegistry: the list of devices: creation, removal and teardown, and  *)
(* one command that looks a device up.                                     *)
(***************************************************************************)
NextRegistry ==
  \/ CreateKeyboard(Part, {TRUE})
  \/ CreateMouse(Part, {TRUE})
  \/ CreateTouch(Part, {TRUE})
  \/ KeyPress(Part.ids, {511})
  \/ RemoveDevice(Part.ids) \/ UnInit

SpecRegistry == Init /\ [][NextRegistry]_vars

(***************************************************************************)
(* SpecVideo: the video commands beside one keyboard.                      *)
(***************************************************************************)
NextVideo ==
  \/ EnableSecondMonitor({0, 1, 2}, Writes)
  \/ GetVideoInfo(Writes)
  \/ CreateKeyboard(Proto, {TRUE})
  \/ KeyPress(Proto.ids, {0, 511})
  \/ KeyRelease(Proto.ids, {0, 511})
  \/ RemoveDevice(Proto.ids) \/ UnInit

SpecVideo == Init /\ [][NextVideo]_vars

(***************************************************************************)
(* SpecFrame: two devices of any kind.  The commands that write a mask go  *)
(* to either device, the others, and the removal, to the first.            *)
(***************************************************************************)
NextFrame ==
  LET lim == Limits(ProtoDevices + 1, ProtoCreates + 1, ProtoTouchDowns)
  IN \/ CreateKeyboard(lim, {TRUE})
     \/ CreateMouse(lim, {TRUE})
     \/ CreateTouch(lim, {TRUE})
     \/ MouseMove({1, 2}, {<<-3, 7>>})
     \/ MouseScroll({1, 2}, {<<0, 5>>})
     \/ TouchDown(lim, {1, 2}, {<<1, 2>>}, {TRUE})
     \/ TouchMove({1, 2}, {1}, {<<1, 2>>})
     \/ TouchUp({1}, {1})
     \/ ButtonPress({1}, {258}) \/ ButtonRelease({1}, {258})
     \/ KeyPress({1}, {511}) \/ KeyRelease({1}, {511})
     \/ RemoveDevice({1}) \/ UnInit
     \/ EnableSecondMonitor({1}, {TRUE}) \/ GetVideoInfo({TRUE})

SpecFrame == Init /\ [][NextFrame]_vars

(***************************************************************************)
(* SpecList: three keyboards, created and removed in any order.            *)
(***************************************************************************)
NextList ==
  LET lim == Limits(MaxDevices + 1, MaxCreates + 1, ProtoTouchDowns)
  IN \/ CreateKeyboard(lim, {TRUE})
     \/ KeyPress(lim.ids, {511})
     \/ RemoveDevice(lim.ids) \/ UnInit

SpecList == Init /\ [][NextList]_vars

(***************************************************************************)
(* SpecKeys: one keyboard on a socket whose reads may come up short or     *)
(* fail.                                                                   *)
(***************************************************************************)
\* key words: the ends of the low byte, and two words above it
Keys == {0, 255, 256, 511}

\* read returns the tag only, or the tag and the id
ShortSizes == {4, 8}

\* what the stack may hold where message is placed
Stacks == {<<0, 0, 0, 0, 0>>,
           <<MT_KEY_PRESS, 1, 511, 0, 0>>,
           <<MT_KEY_RELEASE, 2, 256, 7, 7>>}

NextKeys ==
  \/ CreateKeyboard(Mice, {TRUE})
  \/ KeyPress(Mice.ids, Keys)
  \/ KeyRelease(Mice.ids, Keys)
  \/ ShortRead(Mice, {MT_CREATE_KEYBOARD, MT_KEY_PRESS, MT_KEY_RELEASE},
               ShortSizes, Stacks)
  \/ ReadFails
  \/ RemoveDevice(Mice.ids) \/ UnInit

SpecKeys == Init /\ [][NextKeys]_vars


(***************************************************************************)
(* Reading the last step off the calls.                                    *)
(***************************************************************************)
\* cs are the calls of a handle_message that read a message
HandledIn(cs) == cs # << >> /\ cs[1].call = "read" /\ cs[1].nread > 0

MessageIn(cs) == cs[1].message

TypeIn(cs) == msg_type(MessageIn(cs))

\* the id word of a command that names a device
IdIn(cs) == MessageIn(cs)[2]

EventCalls == {"xf86PostKeyboardEvent", "xf86PostButtonEvent",
               "xf86PostMotionEventM", "xf86PostTouchEvent"}

\* the events handed to the server
EventsIn(cs) == SelectSeq(cs, LAMBDA c : c.call \in EventCalls)

Handled == HandledIn(calls)
LastType == TypeIn(calls)
Replies == Written(calls)
Events == EventsIn(calls)

KeyTags == {MT_KEY_PRESS, MT_KEY_RELEASE}
MouseTags == {MT_BUTTON_PRESS, MT_BUTTON_RELEASE, MT_MOUSE_MOVE,
              MT_MOUSE_SCROLL}
TouchTags == {MT_TOUCH_DOWN, MT_TOUCH_MOVE, MT_TOUCH_UP}

\* the commands that look a device up
EventTags == KeyTags \cup MouseTags \cup TouchTags
LookupTags == EventTags \cup {MT_REMOVE_DEVICE}

\* the records of the registry with device id id
Entries(id) == {a \in DOMAIN heap : heap[a].device = id}

UnknownDevice == "assert(device)"

\* the reply tag main.c gives each request that is answered
ReplyTagOf(type) ==
  CASE type = MT_CREATE_KEYBOARD -> MT_CREATE_KEYBOARD_REPLY
    [] type = MT_CREATE_MOUSE -> MT_CREATE_MOUSE_REPLY
    [] type = MT_CREATE_TOUCH -> MT_CREATE_TOUCH_REPLY
    [] type = MT_TOUCH_DOWN -> MT_TOUCH_DOWN_REPLY
    [] type = MT_ENABLE_SECOND_MONITOR -> MT_ENABLE_SECOND_MONITOR_REPLY
    [] type = MT_GET_VIDEO_INFO -> MT_GET_VIDEO_INFO_REPLY

RepliedTags == {MT_CREATE_KEYBOARD, MT_CREATE_MOUSE, MT_CREATE_TOUCH,
                MT_TOUCH_DOWN, MT_ENABLE_SECOND_MONITOR, MT_GET_VIDEO_INFO}

SilentTags == {MT_KEY_PRESS, MT_KEY_RELEASE, MT_BUTTON_PRESS,
               MT_BUTTON_RELEASE, MT_MOUSE_MOVE, MT_MOUSE_SCROLL,
               MT_TOUCH_MOVE, MT_TOUCH_UP, MT_REMOVE_DEVICE}

(***************************************************************************)
(* C1.  The replies of a handler are fixed by the request tag.  A handler  *)
(* that returns has written exactly one reply, with the matching reply     *)
(* tag and as its last call, for CreateKeyboard, CreateMouse, CreateTouch, *)
(* TouchDown, EnableSecondMonitor and GetVideoInfo, and none for the other *)
(* nine requests; a handler that ends in a failed assertion has written    *)
(* nothing.                                                                *)
(***************************************************************************)
C1_RepliesFixedByTag ==
  Handled =>
    /\ LastType \in SilentTags => Replies = << >>
    /\ LastType \in RepliedTags =>
         IF fatal = "none"
         THEN /\ Len(Replies) = 1
              /\ Replies[1].reply[1] = ReplyTagOf(LastType)
              /\ calls[Len(calls)].call = "write"
         ELSE Replies = << >>

\* a CreateMouse answered with a CreateMouseReply
C1_Witness ==
  /\ Handled /\ fatal = "none"
  /\ LastType = MT_CREATE_MOUSE
  /\ Len(Replies) = 1
  /\ Replies[1].reply[1] = MT_CREATE_MOUSE_REPLY

(***************************************************************************)
(* C2.  The touch ids in the TouchDown replies are 1, 2, 3, ... in the     *)
(* order the TouchDowns were handled, whatever device each named and       *)
(* whatever was handled in between; the id in a reply is the id of the     *)
(* XI_TouchBegin event of the same handler.                                *)
(***************************************************************************)
C2_TouchIdsCount ==
  /\ \A i \in 1..Len(touch_replies) : touch_replies[i] = i
  /\ (Handled /\ LastType = MT_TOUCH_DOWN /\ Replies # << >>) =>
       /\ Len(Events) = 1
       /\ Events[1].type = "XI_TouchBegin"
       /\ Events[1].touchid = Replies[1].reply[2]
       /\ Replies[1].reply[2] = touch_replies[Len(touch_replies)]

\* the second TouchDown, on device 2, after a TouchDown on device 1 (the
\* position (1, 2) is the one the TouchDowns carry)
C2_Witness ==
  /\ Handled /\ LastType = MT_TOUCH_DOWN /\ IdIn(calls) = 2
  /\ touch_replies = <<1, 2>>
  /\ \E a \in Entries(1) : /\ heap[a].type = TyTouch
                           /\ heap[a].mask.bits = {0, 1}
                           /\ heap[a].mask.valuators[0] = 1

(***************************************************************************)
(* C3.  Once a RemoveDevice(id) found its device, and as long as no        *)
(* Create reply hands id out again, a command that looks id up fails with  *)
(* UnknownDevice and the process goes on: the handler makes no call for a  *)
(* device and no assertion fails.                                          *)
(***************************************************************************)
C3_RemovedIdFailsCleanly ==
  [][(/\ HandledIn(calls')
      /\ TypeIn(calls') \in LookupTags
      /\ IdIn(calls') \in removed)
     => (fatal' = "none" /\ Len(calls') = 1)]_vars

\* the kinds the commands and the events are for, and the assertions
KindOfTag(type) ==
  IF type \in KeyTags THEN TyKeyboard
  ELSE IF type \in MouseTags THEN TyMouse ELSE TyTouch

KindOfCall(call) ==
  CASE call = "xf86PostKeyboardEvent" -> TyKeyboard
    [] call = "xf86PostButtonEvent" -> TyMouse
    [] call = "xf86PostMotionEventM" -> TyMouse
    [] call = "xf86PostTouchEvent" -> TyTouch

WrongDeviceKind(kind) ==
  CASE kind = TyKeyboard -> "assert(device->type == TyKeyboard)"
    [] kind = TyMouse -> "assert(device->type == TyMouse)"
    [] kind = TyTouch -> "assert(device->type == TyTouch)"

\* the events of a step go to a record of the kind of the command
C4_EventsAddressed ==
  \A i \in 1..Len(EventsIn(calls')) :
    LET e == EventsIn(calls')[i]
    IN /\ HandledIn(calls')
       /\ TypeIn(calls') \in EventTags
       /\ e.dev = IdIn(calls')
       /\ KindOfCall(e.call) = KindOfTag(TypeIn(calls'))
       /\ \E a \in Entries(e.dev) : heap[a].type = KindOfCall(e.call)

\* a lookup that finds no record, or one of another kind
C4_LookupFails ==
  (HandledIn(calls') /\ TypeIn(calls') \in LookupTags) =>
    LET id == IdIn(calls')
        kind == KindOfTag(TypeIn(calls'))
    IN /\ Entries(id) = {} =>
            /\ fatal' = UnknownDevice
            /\ EventsIn(calls') = << >>
            /\ Len(calls') = 1
            /\ UNCHANGED <<heap, devices, TOUCH_ID, closing>>
       /\ (/\ TypeIn(calls') \in EventTags
           /\ Entries(id) # {}
           /\ \A a \in Entries(id) : heap[a].type # kind) =>
            /\ fatal' = WrongDeviceKind(kind)
            /\ EventsIn(calls') = << >>
            /\ Len(calls') = 1
            /\ UNCHANGED <<heap, devices, TOUCH_ID, closing>>

(***************************************************************************)
(* C4.  An event handed to the server carries the id of the command, and   *)
(* the registry holds a record with that id whose kind is the kind of the  *)
(* command and of the event: key events for TyKeyboard, button and motion  *)
(* events for TyMouse, touch events for TyTouch.  A command whose id no    *)
(* record has ends in get_device's assertion (UnknownDevice), one whose id *)
(* a record of another kind has ends in the assertion on the kind          *)
(* (WrongDeviceKind); both hand no event to the server and leave the       *)
(* records, the list and the touch counter as they were.                   *)
(***************************************************************************)
C4_EventsOnlyToMatchingDevice ==
  [][C4_EventsAddressed /\ C4_LookupFails]_vars

\* a MouseMove for the id of a keyboard, beside a mouse
C4_Witness ==
  /\ Handled /\ LastType = MT_MOUSE_MOVE
  /\ fatal = WrongDeviceKind(TyMouse)
  /\ \E a \in Entries(IdIn(calls)) : heap[a].type = TyKeyboard
  /\ \E a \in DOMAIN heap : heap[a].type = TyMouse

(***************************************************************************)
(* C5.  A message whose tag is no request tag (MT_NONE, a reply tag, a     *)
(* value past the enum) ends in the fatal error "Invalid message type":    *)
(* the handler writes no reply, hands no event to the server and leaves    *)
(* the registry and the outputs as they were.                              *)
(***************************************************************************)
C5_UnknownTagIsFatal ==
  [][(HandledIn(calls') /\ TypeIn(calls') \notin RequestTags) =>
       /\ fatal' = "Invalid message type"
       /\ Written(calls') = << >>
       /\ EventsIn(calls') = << >>
       /\ UNCHANGED <<heap, devices, closing, outputs, randr>>]_vars

\* a CreateKeyboardReply sent as a request while a device is registered
C5_Witness ==
  /\ Handled /\ LastType = MT_CREATE_KEYBOARD_REPLY
  /\ fatal = "Invalid message type"
  /\ DOMAIN heap # {}

\* v is the product d * 120 (without forming a product that does not fit)
IsTimes120(v, d) == v % 120 = 0 /\ v \div 120 = d

(***************************************************************************)
(* C6.  MouseScroll(id, dx, dy) for a registered mouse hands the server    *)
(* one motion event whose mask has slot 2 set iff dx # 0, then to dx *     *)
(* 120, slot 3 set iff dy # 0, then to dy * 120, and slots 0 and 1 unset.  *)
(***************************************************************************)
C6_ScrollSlots ==
  (/\ Handled /\ LastType = MT_MOUSE_SCROLL
   /\ \E a \in Entries(IdIn(calls)) : heap[a].type = TyMouse) =>
    LET dx == MessageIn(calls)[3]
        dy == MessageIn(calls)[4]
    IN /\ Len(Events) = 1
       /\ Events[1].call = "xf86PostMotionEventM"
       /\ Events[1].dev = IdIn(calls)
       /\ Events[1].mask.bits \cap {0, 1} = {}
       /\ 2 \in Events[1].mask.bits <=> dx # 0
       /\ 3 \in Events[1].mask.bits <=> dy # 0
       /\ dx # 0 => IsTimes120(Events[1].mask.valuators[2], dx)
       /\ dy # 0 => IsTimes120(Events[1].mask.valuators[3], dy)

(***************************************************************************)
(* C7.  MouseMove(id, dx, dy) for a registered mouse hands the server one  *)
(* relative motion event whose mask has exactly slots 0 and 1 set, slot 0  *)
(* with dx and slot 1 with dy, each as the accelerated and as the          *)
(* unaccelerated value, also when dx or dy is 0; slots 2 and 3 are unset.  *)
(***************************************************************************)
C7_MoveSlots ==
  (/\ Handled /\ LastType = MT_MOUSE_MOVE
   /\ \E a \in Entries(IdIn(calls)) : heap[a].type = TyMouse) =>
    LET dx == mouse_move_dx(MessageIn(calls))
        dy == mouse_move_dy(MessageIn(calls))
    IN /\ fatal = "none"
       /\ Len(Events) = 1
       /\ Events[1].call = "xf86PostMotionEventM"
       /\ Events[1].dev = IdIn(calls)
       /\ Events[1].is_absolute = "Relative"
       /\ Events[1].mask.bits = {0, 1}
       /\ Events[1].mask.has_unaccelerated
       /\ Events[1].mask.valuators[0] = dx
       /\ Events[1].mask.unaccelerated[0] = dx
       /\ Events[1].mask.valuators[1] = dy
       /\ Events[1].mask.unaccelerated[1] = dy

\* a move by (10, 0): slot 1 is set, to 0
C7_Witness ==
  /\ Handled /\ LastType = MT_MOUSE_MOVE
  /\ mouse_move_dx(MessageIn(calls)) = 10
  /\ mouse_move_dy(MessageIn(calls)) = 0
  /\ Len(Events) = 1
  /\ 1 \in Events[1].mask.bits

CreateTags == {MT_CREATE_KEYBOARD, MT_CREATE_MOUSE, MT_CREATE_TOUCH}

\* the handler of a Create command wrote its reply
CreatedIn(cs) ==
  HandledIn(cs) /\ TypeIn(cs) \in CreateTags /\ Written(cs) # << >>

ReplyIdIn(cs) == Written(cs)[1].reply[2]

(***************************************************************************)
(* C8.  As stated: no two Create replies carry the same id, that is, no    *)
(* Create reply carries an id that an earlier Create reply carried.        *)
(***************************************************************************)
C8_ReplyIdsNeverRepeat ==
  [][CreatedIn(calls') => ReplyIdIn(calls') \notin handed]_vars

(***************************************************************************)
(* C8, amended.  The id in a Create reply is the id of the record the      *)
(* handler appended at the tail of the list, no record held that id before *)
(* the handler ran, and no two records of the registry ever hold the same  *)
(* id; an id may be handed out again once the record that held it is       *)
(* freed.                                                                  *)
(***************************************************************************)
C8_ReplyIdsDistinctAmongHeld ==
  [][/\ \A a, b \in DOMAIN heap' :
          a # b => heap'[a].device # heap'[b].device
     /\ CreatedIn(calls') =>
          /\ ReplyIdIn(calls') \notin HeldIds
          /\ \E a \in DOMAIN heap' \ DOMAIN heap :
               /\ heap'[a].device = ReplyIdIn(calls')
               /\ heap'[a].next = NULL]_vars

\* the second Create reply carries the id of the first, whose device is gone
C8_Witness ==
  /\ CreatedIn(calls)
  /\ next_input_id = 3
  /\ handed = {ReplyIdIn(calls)}
  /\ Cardinality(DOMAIN heap) = 1

KindOfCreate(type) ==
  CASE type = MT_CREATE_KEYBOARD -> TyKeyboard
    [] type = MT_CREATE_MOUSE -> TyMouse
    [] type = MT_CREATE_TOUCH -> TyTouch

\* the records of the list h from d on, in order
RECURSIVE Chain(_, _)
Chain(h, d) == IF d = NULL THEN << >> ELSE <<d>> \o Chain(h, h[d].next)

\* the record a Create command leaves
C9_CreatedFresh ==
  CreatedIn(calls') =>
    LET list == Chain(heap', devices')
        found == {i \in 1..Len(list) :
                    heap'[list[i]].device = ReplyIdIn(calls')}
    IN /\ Cardinality(found) = 1
       /\ \A i \in found :
            /\ heap'[list[i]].type = KindOfCreate(TypeIn(calls'))
            /\ heap'[list[i]].mask.bits = {}

\* the records a step keeps, keep their type
C9_KindFixed ==
  \A a \in DOMAIN heap \cap DOMAIN heap' : heap'[a].type = heap[a].type

(***************************************************************************)
(* C9.  After a Create command of kind K is answered, a scan of the list   *)
(* for the id in the reply meets exactly one record; its type is K,        *)
(* whatever was created before, and none of its mask's slots is set.  The  *)
(* type of a record never changes.                                         *)
(***************************************************************************)
C9_CreateThenLookup == [][C9_CreatedFresh /\ C9_KindFixed]_vars

\* a mouse created beside a keyboard
C9_Witness ==
  /\ CreatedIn(calls) /\ LastType = MT_CREATE_MOUSE
  /\ \E a \in Entries(ReplyIdIn(calls)) : heap[a].type = TyMouse
  /\ \E a \in DOMAIN heap : heap[a].type = TyKeyboard

(***************************************************************************)
(* C10.  The handler of EnableSecondMonitor that writes its reply has, in  *)
(* this order: set driver.outputs[1].connected, raised the change          *)
(* (RRSetChanged, xf86RandR12TellChanged), made the server ask the outputs *)
(* again and publish (RRGetInfo with force_query), and written the reply   *)
(* as its last call; when the reply is written the published connection of *)
(* output 1 is the value of the command.                                   *)
(***************************************************************************)
C10_EnableOrdered ==
  (Handled /\ LastType = MT_ENABLE_SECOND_MONITOR /\ Replies # << >>) =>
    LET want == ToBool(enable_second_monitor_enable(MessageIn(calls)))
        n == Len(calls)
    IN /\ Len(Replies) = 1
       /\ calls[n].call = "write"
       /\ calls[n].reply[1] = MT_ENABLE_SECOND_MONITOR_REPLY
       /\ \E i, j, k \in 2..(n - 1) :
            /\ i < j /\ j < k
            /\ calls[i].call = "RRSetChanged"
            /\ calls[i].outputs[1].connected = want
            /\ calls[j].call = "xf86RandR12TellChanged"
            /\ calls[j].changed
            /\ calls[j].outputs[1].connected = want
            /\ calls[k].call = "RRGetInfo"
            /\ calls[k].force_query
            /\ calls[k].connection[1] = want
       /\ outputs[1].connected = want
       /\ randr.connection[1] = want

\* the reply to a command with enable = 2, with output 1 published connected
C10_Witness ==
  /\ Handled /\ LastType = MT_ENABLE_SECOND_MONITOR
  /\ enable_second_monitor_enable(MessageIn(calls)) = 2
  /\ Len(Replies) = 1
  /\ randr.connection[1]

(***************************************************************************)
(* C11.  output_detect of output 1, and the connection the server has      *)
(* published for it, are those of the last EnableSecondMonitor handled:    *)
(* disconnected before the first one, then connected iff its enable word   *)
(* is not 0; no other command and no callback changes them.                *)
(***************************************************************************)
C11_DetectFollowsEnable ==
  [][/\ calls = << >> =>
          ~output_detect(outputs[1]) /\ ~randr.connection[1]
     /\ IF HandledIn(calls') /\ TypeIn(calls') = MT_ENABLE_SECOND_MONITOR
        THEN LET want ==
                   ToBool(enable_second_monitor_enable(MessageIn(calls')))
             IN /\ output_detect(outputs'[1]) = want
                /\ randr'.connection[1] = want
        ELSE /\ output_detect(outputs'[1]) = output_detect(outputs[1])
             /\ randr'.connection[1] = randr.connection[1]]_vars

\* output 1 still connected after a KeyPress that followed the enable
C11_Witness ==
  /\ Handled /\ LastType = MT_KEY_PRESS /\ fatal = "none"
  /\ output_detect(outputs[1])
  /\ randr.connection[1]

(***************************************************************************)
(* C12.  Output 0 is connected, and published as connected, in every       *)
(* state; no step changes driver.outputs[0], and EnableSecondMonitor       *)
(* changes no output but output 1.                                         *)
(***************************************************************************)
C12_FirstOutputConnected ==
  [][/\ output_detect(outputs[0]) /\ randr.connection[0]
     /\ output_detect(outputs'[0]) /\ randr'.connection[0]
     /\ \A i \in Outputs \ {1} : outputs'[i] = outputs[i]]_vars

\* EnableSecondMonitor(1) connected output 1 and left output 0 connected
C12_Witness ==
  /\ Handled /\ LastType = MT_ENABLE_SECOND_MONITOR /\ fatal = "none"
  /\ enable_second_monitor_enable(MessageIn(calls)) = 1
  /\ output_detect(outputs[1])
  /\ output_detect(outputs[0])

\* a GetVideoInfo was answered; the words of its reply
VideoInfoReplied ==
  Handled /\ LastType = MT_GET_VIDEO_INFO /\ Replies # << >>

VideoInfo == Replies[1].reply

\* the reply as main.c initializes it, and the one a GetVideoInfo gets right
\* after screen_init
BlankVideoInfo ==
  [type |-> MT_GET_VIDEO_INFO_REPLY, second_crtc |-> 0, second_output |-> 0,
   first_output |-> 0, large_mode_id |-> 0, small_mode_id |-> 0]

VideoInfoAfterInit ==
  GetVideoInfoReply(video_get_info([outputs |-> screen_init], BlankVideoInfo))

(***************************************************************************)
(* C13.  Every GetVideoInfoReply is the reply a GetVideoInfo gets right    *)
(* after screen initialization, whatever was handled before it; so any two *)
(* replies of one process are identical.                                   *)
(***************************************************************************)
C13_VideoInfoImmutable ==
  VideoInfoReplied => VideoInfo = VideoInfoAfterInit

\* a reply written while output 1 is connected and a device is registered
C13_Witness ==
  /\ VideoInfoReplied
  /\ outputs # screen_init
  /\ output_detect(outputs[1])
  /\ DOMAIN heap # {}

\* the modes of output 0 that are 1024 wide, and those that are not
LargeModes == {i \in 1..Len(Output0Modes) : Output0Modes[i].width = 1024}
SmallModes == {i \in 1..Len(Output0Modes) : Output0Modes[i].width # 1024}

(***************************************************************************)
(* C14.  Output 0 has one mode that is 1024 wide and one that is 800 wide; *)
(* in a GetVideoInfoReply large_mode_id is the id of the first and         *)
(* small_mode_id the id of the second, the two differ and neither is the 0 *)
(* the reply was initialized with.                                         *)
(***************************************************************************)
C14_ModesClassified ==
  VideoInfoReplied =>
    /\ Cardinality(LargeModes) = 1
    /\ Cardinality(SmallModes) = 1
    /\ \A i \in SmallModes : Output0Modes[i].width = 800
    /\ \A i \in LargeModes : VideoInfo[5] = Output0Modes[i].id
    /\ \A i \in SmallModes : VideoInfo[6] = Output0Modes[i].id
    /\ VideoInfo[5] # VideoInfo[6]
    /\ VideoInfo[5] # 0 /\ VideoInfo[6] # 0

\* a reply with two different mode ids
C14_Witness ==
  /\ VideoInfoReplied /\ fatal = "none"
  /\ VideoInfo[5] # VideoInfo[6]
  /\ VideoInfo[5] # BlankVideoInfo.large_mode_id

(***************************************************************************)
(* C16.  As stated: the reply is the tag, then second_crtc, first_output,  *)
(* second_output, small_mode_id, large_mode_id.                            *)
(***************************************************************************)
C16_WireOrderAsStated ==
  VideoInfoReplied =>
    /\ Len(VideoInfo) = 6
    /\ VideoInfo[1] = MT_GET_VIDEO_INFO_REPLY
    /\ VideoInfo[2] = outputs[1].crtc
    /\ VideoInfo[3] = outputs[0].output
    /\ VideoInfo[4] = outputs[1].output
    /\ \A i \in SmallModes : VideoInfo[5] = Output0Modes[i].id
    /\ \A i \in LargeModes : VideoInfo[6] = Output0Modes[i].id

(***************************************************************************)
(* C16, amended.  The reply is the tag followed by five 32-bit words in    *)
(* the order of struct GetVideoInfoReply: second_crtc, second_output,      *)
(* first_output, large_mode_id, small_mode_id, each word holding the       *)
(* identifier of that name.                                                *)
(***************************************************************************)
C16_WireOrderOfStruct ==
  VideoInfoReplied =>
    /\ Len(VideoInfo) = 6
    /\ VideoInfo[1] = MT_GET_VIDEO_INFO_REPLY
    /\ VideoInfo[2] = outputs[1].crtc
    /\ VideoInfo[3] = outputs[1].output
    /\ VideoInfo[4] = outputs[0].output
    /\ \A i \in LargeModes : VideoInfo[5] = Output0Modes[i].id
    /\ \A i \in SmallModes : VideoInfo[6] = Output0Modes[i].id

\* a reply whose third word is the second output's id
C16_Witness ==
  /\ VideoInfoReplied
  /\ VideoInfo[3] = outputs[1].output
  /\ VideoInfo[3] # outputs[0].output

\* the last step is a read that stored less than a whole message, or failed
IncompleteRead ==
  calls # << >> /\ calls[1].call = "read" /\ calls[1].nread < MessageSize

(***************************************************************************)
(* C15.  As stated: when read returns fewer bytes than a whole message, or *)
(* an error, the process is terminated at the read: no command is          *)
(* executed, no event delivered and no reply written.                      *)
(***************************************************************************)
C15_IncompleteReadIsFatal ==
  IncompleteRead =>
    /\ fatal = "assert(read(fd, &message, sizeof(message)) > 0)"
    /\ Len(calls) = 1
    /\ Events = << >>
    /\ Replies = << >>

(***************************************************************************)
(* C17.  A KeyPress or KeyRelease that finds its keyboard delivers exactly *)
(* one keyboard event and nothing else, to that keyboard, with key code    *)
(* (key mod 256) + 8, which lies in 8..263, and with the down flag set for *)
(* KeyPress and clear for KeyRelease.                                      *)
(***************************************************************************)
C17_KeyCode ==
  (/\ Handled /\ LastType \in KeyTags /\ fatal = "none") =>
    LET key == key_press_key(MessageIn(calls))
    IN /\ Len(calls) = 2
       /\ Len(Events) = 1
       /\ Events[1].call = "xf86PostKeyboardEvent"
       /\ Events[1].dev = IdIn(calls)
       /\ Events[1].key_code = (key % 256) + 8
       /\ Events[1].key_code \in 8..263
       /\ Events[1].is_down = (IF LastType = MT_KEY_PRESS THEN 1 ELSE 0)
       /\ \E a \in Entries(IdIn(calls)) : heap[a].type = TyKeyboard

\* key 511 released on a keyboard: key code 263, the highest
C17_Witness ==
  /\ Handled /\ LastType = MT_KEY_RELEASE /\ fatal = "none"
  /\ calls[1].nread = MessageSize
  /\ key_press_key(MessageIn(calls)) = 511
  /\ Len(Events) = 1 /\ Events[1].key_code = 263 /\ Events[1].is_down = 0

\* the positions in cs of the calls named in names
CallsOf(cs, names) == {i \in 1..Len(cs) : cs[i].call \in names}

\* cs is one run of handle_message: it starts with the one read; a reply, if
\* any, is the only one and the last call, so every effect precedes it; a
\* request that is answered and returns has its reply written
OneRequest(cs) ==
  /\ CallsOf(cs, {"read"}) = {1}
  /\ CallsOf(cs, {"UnInit"}) = {}
  /\ CallsOf(cs, {"write"}) \in {{}, {Len(cs)}}
  /\ (HandledIn(cs) /\ TypeIn(cs) \in RepliedTags /\ fatal' = "none")
       => /\ CallsOf(cs, {"write"}) = {Len(cs)}
          /\ cs[Len(cs)].reply[1] = ReplyTagOf(TypeIn(cs))
          /\ TypeIn(cs) # MT_GET_VIDEO_INFO => Len(cs) > 2

\* cs is one teardown callback run by the server between two requests: it
\* reads and writes nothing and delivers no event
OneCallback(cs) ==
  /\ CallsOf(cs, {"UnInit"}) = {1}
  /\ CallsOf(cs, {"read", "write"} \cup EventCalls) = {}

Freed == DOMAIN heap \ DOMAIN heap'

MaskFrees == SelectSeq(calls', LAMBDA c : c.call = "valuator_mask_free")

\* the step handled a RemoveDevice
RemoveHandled == HandledIn(calls') /\ TypeIn(calls') = MT_REMOVE_DEVICE

\* the step is the server's teardown callback
TeardownStep == calls' # << >> /\ calls'[1].call = "UnInit"

\* a record is released only by the teardown of its device, one record at a
\* time: it leaves the list, the others keep their order, and its mask is
\* freed once if it has one (Mouse, Touch) and not at all if it has none;
\* nothing is freed in a step that releases no record
C19_Released ==
  /\ Cardinality(Freed) <= 1
  /\ \A a \in Freed :
       /\ \/ TeardownStep /\ calls'[1].dev = heap[a].device
          \/ RemoveHandled /\ IdIn(calls') = heap[a].device
       /\ Chain(heap', devices') =
            SelectSeq(Chain(heap, devices), LAMBDA d : d # a)
       /\ heap[a].type \in {TyMouse, TyTouch} <=> heap[a].mask.alloc
       /\ IF heap[a].mask.alloc
          THEN Len(MaskFrees) = 1 /\ MaskFrees[1].dev = heap[a].device
          ELSE MaskFrees = << >>
       /\ heap[a].device \notin closing'
  /\ Freed = {} => MaskFrees = << >>
  /\ TeardownStep =>
       /\ Cardinality(Freed) = 1
       /\ closing' = closing \ {calls'[1].dev}
       /\ calls'[1].dev \in closing

\* as stated: handling RemoveDevice leaves the registry unchanged
C19_RemoveLeavesRegistry ==
  RemoveHandled => heap' = heap /\ devices' = devices

\* RemoveDevice itself only asks the server to remove the device; when the
\* server defers the teardown the registry is unchanged and the device is
\* pending, and a second RemoveDevice for a pending device changes nothing
C19_RemoveOnlyRequests ==
  (RemoveHandled /\ fatal' = "none") =>
    /\ Len(calls') >= 2
    /\ calls'[2] = [call |-> "DeleteInputDeviceRequest", dev |-> IdIn(calls')]
    /\ \A i \in 3..Len(calls') : calls'[i].call = "valuator_mask_free"
    /\ Freed = {} =>
         /\ heap' = heap /\ devices' = devices
         /\ closing' = closing \cup {IdIn(calls')}
    /\ IdIn(calls') \in closing => Freed = {} /\ closing' = closing

(***************************************************************************)
(* C19.  As stated: handling RemoveDevice leaves the registry unchanged,   *)
(* and each record and its accumulator are released once, by the teardown  *)
(* of its device.                                                          *)
(***************************************************************************)
C19_TwoStepRemoval ==
  [][C19_RemoveLeavesRegistry /\ C19_Released]_vars

(***************************************************************************)
(* C19, amended.  RemoveDevice only asks the server to remove the device.  *)
(* The record and, for Mouse and Touch, its accumulator are released when  *)
(* the server runs the teardown callback, which may be inside the removal  *)
(* request or later; until then the registry is unchanged.  Each record is *)
(* released at most once and its accumulator with it, exactly once.        *)
(***************************************************************************)
C19_ReleasedAtTeardown ==
  [][C19_RemoveOnlyRequests /\ C19_Released]_vars

\* a deferred teardown has released a record with an accumulator, after
\* RemoveDevice was handled for the device
C19_Witness ==
  /\ calls # << >> /\ calls[1].call = "UnInit"
  /\ Len(calls) = 2 /\ calls[2].call = "valuator_mask_free"
  /\ calls[1].dev \in removed
  /\ fatal = "none"

\* the commands that write into the mask of their device, and the calls
\* DEVICE_INIT makes
MaskTags == {MT_MOUSE_MOVE, MT_MOUSE_SCROLL, MT_TOUCH_DOWN, MT_TOUCH_MOVE}

InitCalls == {"InitKeyboardDeviceStruct", "InitPointerDeviceStruct",
              "InitTouchClassDeviceStruct", "SetScrollValuator"}

(***************************************************************************)
(* C20.  Every Mouse and Touch record in the registry has its mask: a      *)
(* move, scroll, touch-down or touch-move that delivers an event found the *)
(* mask of its device allocated.  The calls of DEVICE_INIT are made only   *)
(* while a Create is handled, after the device was requested and before    *)
(* the reply, for the device created, which was not registered before, and *)
(* once: one InitKeyboardDeviceStruct for a keyboard, one                  *)
(* InitPointerDeviceStruct for a mouse or touch device.                    *)
(***************************************************************************)
C20_InitBeforeEvents ==
  [][/\ \A a \in DOMAIN heap' :
          heap'[a].type \in {TyMouse, TyTouch} => heap'[a].mask.alloc
     /\ (HandledIn(calls') /\ TypeIn(calls') \in MaskTags
           /\ EventsIn(calls') # << >>)
          => \E a \in Entries(IdIn(calls')) :
               heap[a].type \in {TyMouse, TyTouch} /\ heap[a].mask.alloc
     /\ CallsOf(calls', InitCalls) # {}
          => HandledIn(calls') /\ TypeIn(calls') \in CreateTags
     /\ CreatedIn(calls') =>
          LET dev == ReplyIdIn(calls')
              pointer == KindOfCreate(TypeIn(calls')) \in {TyMouse, TyTouch}
          IN /\ Entries(dev) = {}
             /\ calls'[2].call = "NewInputDeviceRequest"
             /\ calls'[2].dev = dev
             /\ \A i \in CallsOf(calls', InitCalls) :
                  calls'[i].dev = dev /\ 2 < i /\ i < Len(calls')
             /\ Cardinality(CallsOf(calls', {"InitPointerDeviceStruct"})) =
                  (IF pointer THEN 1 ELSE 0)
             /\ Cardinality(CallsOf(calls', {"InitKeyboardDeviceStruct"})) =
                  (IF pointer THEN 0 ELSE 1)]_vars

\* a touch point moved on a touch device whose mask was allocated when it
\* was created
C20_Witness ==
  /\ Handled /\ LastType = MT_TOUCH_MOVE /\ fatal = "none"
  /\ Len(Events) = 1 /\ Events[1].call = "xf86PostTouchEvent"
  /\ \E a \in Entries(IdIn(calls)) :
       heap[a].type = TyTouch /\ heap[a].mask.alloc

(***************************************************************************)
(* C21.  The mask of a record that is in the registry before and after a   *)
(* step changes only when the step handled a MouseMove or MouseScroll      *)
(* naming that record's device, a mouse, or a TouchDown or TouchMove       *)
(* naming it, a touch device; every other command, every command naming    *)
(* another device and every teardown of another device leaves it as it     *)
(* was.  A TouchUp leaves TOUCH_ID unchanged.                              *)
(***************************************************************************)
C21_MaskFrame ==
  [][/\ \A a \in DOMAIN heap \cap DOMAIN heap' :
          heap'[a].mask # heap[a].mask =>
            /\ HandledIn(calls')
            /\ TypeIn(calls') \in MaskTags
            /\ IdIn(calls') = heap[a].device
            /\ heap[a].type =
                 (IF TypeIn(calls') \in MouseTags THEN TyMouse ELSE TyTouch)
     /\ (HandledIn(calls') /\ TypeIn(calls') = MT_TOUCH_UP)
          => TOUCH_ID' = TOUCH_ID]_vars

\* a button was pressed on a mouse whose mask holds a motion, beside a
\* touch device whose mask holds a point
C21_Witness ==
  /\ Handled /\ LastType = MT_BUTTON_PRESS /\ fatal = "none"
  /\ Len(Events) = 1
  /\ \E a \in Entries(IdIn(calls)) : heap[a].mask.bits # {}
  /\ \E b \in DOMAIN heap :
       /\ heap[b].device # IdIn(calls)
       /\ heap[b].type = TyTouch
       /\ heap[b].mask.bits # {}
  /\ TOUCH_ID > 1

(***************************************************************************)
(* C22.  As stated: a MouseScroll that finds its mouse completes, and for  *)
(* each non-zero delta d the scroll slot of the mouse's mask (2 for dx, 3  *)
(* for dy) holds the product d * 120, a value of int.                      *)
(***************************************************************************)
C22_ScrollProductExact ==
  (/\ Handled /\ LastType = MT_MOUSE_SCROLL
   /\ \E a \in Entries(IdIn(calls)) : heap[a].type = TyMouse) =>
    /\ fatal = "none"
    /\ \A a \in Entries(IdIn(calls)) :
         \A slot \in {2, 3} :
           LET d == MessageIn(calls)[slot + 1]
               v == heap[a].mask.valuators[slot]
           IN d # 0 => /\ slot \in heap[a].mask.bits
                       /\ IsTimes120(v, d)
                       /\ INT32_MIN <= v /\ v <= INT32_MAX

\* the records met on at most n steps along next from d, in order; the walk
\* stops at NULL and at a pointer to no record
RECURSIVE ListFrom(_, _, _)
ListFrom(h, d, n) ==
  IF d = NULL \/ n = 0 \/ d \notin DOMAIN h THEN << >>
  ELSE <<d>> \o ListFrom(h, h[d].next, n - 1)

(***************************************************************************)
(* C23.  After every step the list from devices is well formed: it ends in *)
(* NULL after as many records as there are, each record is on it once,     *)
(* the prev_next of the first is &devices and that of any other is the     *)
(* next field of the one before it, and the scan of get_device finds every *)
(* record by its device id.  A step that creates a device appends its      *)
(* record at the tail, a teardown takes its record out, and the other      *)
(* records keep their order, so the list is in the order of creation.      *)
(***************************************************************************)
C23_ListWellFormed ==
  [][LET old == ListFrom(heap, devices, Cardinality(DOMAIN heap) + 1)
         list == ListFrom(heap', devices', Cardinality(DOMAIN heap') + 1)
         new == DOMAIN heap' \ DOMAIN heap
         kept == SelectSeq(old, LAMBDA d : d \in DOMAIN heap')
     IN /\ Len(list) = Cardinality(DOMAIN heap')
        /\ {list[i] : i \in 1..Len(list)} = DOMAIN heap'
        /\ IF list = << >> THEN devices' = NULL
           ELSE heap'[list[Len(list)]].next = NULL
        /\ \A i \in 1..Len(list) :
             heap'[list[i]].prev_next = (IF i = 1 THEN 0 ELSE list[i - 1])
        /\ \A a \in DOMAIN heap' :
             Scan([heap |-> heap', devices |-> devices'], devices',
                  heap'[a].device) = a
        /\ Cardinality(new) <= 1
        /\ new # {} => CallsOf(calls', {"NewInputDeviceRequest"}) # {}
        /\ list = kept \o SelectSeq(list, LAMBDA d : d \in new)
        /\ new # {} => list[Len(list)] \in new]_vars

\* the second of three records was torn down: the first and the third are
\* left, in that order
C23_Witness ==
  /\ calls # << >> /\ calls[1].call = "UnInit" /\ fatal = "none"
  /\ next_input_id = 4
  /\ DOMAIN heap = {1, 3}
  /\ devices = 1 /\ heap[1].next = 3 /\ heap[3].prev_next = 1

====
